---- MODULE Spec2Model ----
(***************************************************************************)
(* A model of @tokenring-ai/rpc: the endpoint builder (createRPCEndpoint), *)
(* the endpoint registry (RpcService) and the in-process client            *)
(* (createLocalRPCClient).                                                  *)
(*                                                                         *)
(* JavaScript values that may be `undefined` are tagged records, so that   *)
(* a handler, an endpoint and `undefined` can be compared with each other. *)
(***************************************************************************)
EXTENDS Integers, Sequences, FiniteSets, TLC

VARIABLES
  schemas,         \* the RPCSchema given to createRPCEndpoint
  implementation,  \* the RPCImplementation given to createRPCEndpoint
  endpoint,        \* {} before createRPCEndpoint ran, {its result} after
  client,          \* {} before createLocalRPCClient ran, {its result} after
  streams,         \* the stream invocations made through the client, by slot
  calls,           \* the query/mutation calls made through the client, by slot
  services,        \* the RpcService instances: a sequence of registries
  lastCall,        \* what the most recent RpcService call did, as its caller sees it
  lastReg,         \* history: per instance, per name, the endpoint registered last
  reRegistered     \* history: per instance, the names registered more than once

buildVars == <<schemas, implementation, endpoint, client>>
clientVars == <<streams, calls>>
registryVars == <<services, lastCall, lastReg, reRegistered>>
vars == <<schemas, implementation, endpoint, client, streams, calls, services, lastCall, lastReg, reRegistered>>

(***************************************************************************)
(* Values                                                                  *)
(***************************************************************************)
Undefined == [tag |-> "undefined"]
Fn(id) == [tag |-> "function", id |-> id]

MethodTypes == {"query", "mutation", "stream"}
\* zod schemas, by identity
Validators == {"zA", "zB"}
\* handler functions, by identity
HandlerIds == {"hq", "hm", "hsCheck", "hsIgnore", "hx"}

\* One method of an RPCSchema: {type, input, result}.
SchemaMethod == [type : MethodTypes, input : Validators, result : Validators]

\* All maps from a subset of `names` to `range`: a JS object with those keys.
ObjectsOver(names, range) == UNION {[d -> range] : d \in SUBSET names}

(***************************************************************************)
(* createRPCEndpoint                                                       *)
(***************************************************************************)
\* implementation[name]: a property read, undefined for a missing key.
ImplementationAt(impl, name) ==
  IF name \in DOMAIN impl THEN impl[name] ELSE Undefined

\* createRPCEndpoint going through the implementation's keys as well.
createRPCEndpointAllKeys(s, impl) ==
  [ name |-> s.name,
    path |-> s.path,
    methods |-> [ name \in DOMAIN s.methods \cup DOMAIN impl |->
                    IF name \in DOMAIN s.methods
                      THEN [ type |-> s.methods[name].type,
                             inputSchema |-> s.methods[name].input,
                             resultSchema |-> s.methods[name].result,
                             execute |-> ImplementationAt(impl, name) ]
                      ELSE [ type |-> "undefined",
                             inputSchema |-> "undefined",
                             resultSchema |-> "undefined",
                             execute |-> ImplementationAt(impl, name) ] ] ]

\* createRPCEndpoint with input and result exchanged.
createRPCEndpointSwapped(s, impl) ==
  [ name |-> s.name,
    path |-> s.path,
    methods |-> [ name \in DOMAIN s.methods |->
                    [ type |-> s.methods[name].type,
                      inputSchema |-> s.methods[name].result,
                      resultSchema |-> s.methods[name].input,
                      execute |-> ImplementationAt(impl, name) ] ] ]

createRPCEndpoint(s, impl) ==
  [ name |-> s.name,
    path |-> s.path,
    methods |-> [ name \in DOMAIN s.methods |->
                    [ type |-> s.methods[name].type,
                      inputSchema |-> s.methods[name].input,
                      resultSchema |-> s.methods[name].result,
                      execute |-> ImplementationAt(impl, name) ] ] ]

(***************************************************************************)
(* createLocalRPCClient                                                    *)
(***************************************************************************)
\* The function made for one method: its calling convention, and what it
\* closes over (the method and the app).
createLocalRPCClientQueryOnly(ep, app) ==
  [ name \in DOMAIN ep.methods |->
      IF ep.methods[name].type # "query"
        THEN [conv |-> "asyncGenerator", method |-> ep.methods[name], app |-> app]
        ELSE [conv |-> "async", method |-> ep.methods[name], app |-> app] ]

createLocalRPCClient(ep, app) ==
  [ name \in DOMAIN ep.methods |->
      IF ep.methods[name].type = "stream"
        THEN [conv |-> "asyncGenerator", method |-> ep.methods[name], app |-> app]
        ELSE [conv |-> "async", method |-> ep.methods[name], app |-> app] ]

Apps == {"app1", "app2"}


(***************************************************************************)
(* Building an endpoint and a client from it                               *)
(***************************************************************************)
\* const endpoint = createRPCEndpoint(schemas, implementation)
Build ==
  /\ endpoint = {}
  /\ endpoint' = {createRPCEndpoint(schemas, implementation)}
  /\ UNCHANGED <<schemas, implementation, client, clientVars, registryVars>>

\* const client = createLocalRPCClient(endpoint, app)
CreateClient(app) ==
  /\ client = {}
  /\ \E ep \in endpoint : client' = {createLocalRPCClient(ep, app)}
  /\ UNCHANGED <<schemas, implementation, endpoint, clientVars, registryVars>>

(***************************************************************************)
(* Calls through the client                                                *)
(***************************************************************************)
\* Call arguments, by identity; the zod schema zA rejects p2, zB accepts both.
Params == {"p1", "p2"}
Accepts(validator, p) == validator = "zB" \/ p = "p1"

\* What handlers return and throw; TypeError is the runtime's own error.
Results == {"r1", "r2"}
Errors == {"e1", "e2"}
TypeError == "TypeError"
NoError == "none"

\* The slots of stream invocations and of query/mutation calls.
Invs == {"i1"}
CallIds == {"c1"}
\* A stream handler produces at most this many elements.
MaxElems == 5

\* The AbortSignal a stream invocation is given: none ("undefined"), or one that
\* is not aborted yet ("active") or aborted ("aborted").
SignalStates == {"undefined", "active", "aborted"}
\* The signal argument as the handler receives it: the invocation's own object.
SignalArg(i, sig) == IF sig = "undefined" THEN Undefined ELSE [tag |-> "signal", of |-> i]

\* signal?.aborted
OptionalAborted(sig) == sig = "aborted"

\* A handler that reads signal.aborted before each element (as testStream does).
ChecksSignal(h) == h = Fn("hsCheck")

IdleStream ==
  [ pc |-> "none", name |-> "", params |-> "", signal |-> "undefined",
    hcalls |-> <<>>,      \* the handler's invocations: its arguments
    hstate |-> "none",    \* the handler's generator: none, running, returned, threw, closed
    produced |-> <<>>,    \* history: the elements the handler yielded
    pending |-> <<>>,     \* the element the wrapper holds and has not yielded
    received |-> <<>>,    \* the elements the consumer got
    error |-> NoError,    \* the error the consumer got
    hthrew |-> NoError,   \* history: the error the handler threw
    recvAtAbort |-> -1,   \* history: Len(received) when the signal was aborted
    pcAtAbort |-> "",     \* history: where the invocation was when the signal was aborted
    cancelSeen |-> FALSE, \* history: the wrapper took its break
    abandoned |-> FALSE ] \* history: the consumer closed the sequence itself

IdleCall ==
  [ pc |-> "none", name |-> "", params |-> "",
    hcalls |-> <<>>,      \* the handler's invocations: its arguments
    hstate |-> "none",    \* the handler's result: none, pending, fulfilled, rejected, threw
    hvalue |-> "",        \* the value or error of the handler's result
    value |-> "" ]        \* the value or error the caller's promise settled with

TheClient == CHOOSE c \in client : TRUE

\* client[name](params, signal): calling an async generator function runs none of
\* its body; it returns the generator object.
StreamCall(i, name, p, sig) ==
  /\ client # {}
  /\ name \in DOMAIN TheClient
  /\ TheClient[name].conv = "asyncGenerator"
  /\ streams[i].pc = "none"
  /\ streams' = [streams EXCEPT ![i] =
       [@ EXCEPT !.pc = "suspendedStart", !.name = name, !.params = p, !.signal = sig,
                 !.recvAtAbort = IF sig = "aborted" THEN 0 ELSE -1,
                 !.pcAtAbort = IF sig = "aborted" THEN "call" ELSE ""]]
  /\ UNCHANGED <<buildVars, calls, registryVars>>

\* ConsumerNext with an absent execute taken for an empty sequence.
ConsumerNextOptionalCall(i) ==
  LET st == streams[i]
      f == TheClient[st.name]
  IN /\ st.pc \in {"suspendedStart", "suspendedYield"}
     /\ streams' = [streams EXCEPT ![i] =
          IF st.pc = "suspendedYield"
            THEN [@ EXCEPT !.pc = "pulling"]
            ELSE IF f.method.execute = Undefined
              THEN [@ EXCEPT !.pc = "done"]
              ELSE [@ EXCEPT !.pc = "pulling", !.hstate = "running",
                             !.hcalls = Append(@, [handler |-> f.method.execute,
                                                    params |-> st.params,
                                                    app |-> f.app,
                                                    signal |-> SignalArg(i, st.signal)])]]
     /\ UNCHANGED <<buildVars, calls, registryVars>>

\* The consumer asks for the next element. The first request runs the body up to
\* the loop's first generator.next(): method.execute(params, app, signal), which
\* throws a TypeError when execute is undefined. A later request resumes the
\* body after its yield, and the loop calls generator.next() again.
ConsumerNext(i) ==
  LET st == streams[i]
      f == TheClient[st.name]
  IN /\ st.pc \in {"suspendedStart", "suspendedYield"}
     /\ streams' = [streams EXCEPT ![i] =
          IF st.pc = "suspendedYield"
            THEN [@ EXCEPT !.pc = "pulling"]
            ELSE IF f.method.execute = Undefined
              THEN [@ EXCEPT !.pc = "failed", !.error = TypeError]
              ELSE [@ EXCEPT !.pc = "pulling", !.hstate = "running",
                             !.hcalls = Append(@, [handler |-> f.method.execute,
                                                    params |-> st.params,
                                                    app |-> f.app,
                                                    signal |-> SignalArg(i, st.signal)])]]
     /\ UNCHANGED <<buildVars, calls, registryVars>>

\* The handler yields its next element, {number: i}. A handler that reads
\* signal.aborted yields only while the signal is there and not aborted.
HandlerYield(i) ==
  LET st == streams[i]
      v == [number |-> Len(st.produced)]
  IN /\ st.pc = "pulling"
     /\ Len(st.produced) < MaxElems
     /\ ChecksSignal(TheClient[st.name].method.execute) => st.signal = "active"
     /\ streams' = [streams EXCEPT ![i] =
          [@ EXCEPT !.pc = "delivered", !.produced = Append(@, v), !.pending = <<v>>]]
     /\ UNCHANGED <<buildVars, calls, registryVars>>

\* The handler's sequence ends: the loop ends, and so does the client's sequence.
HandlerReturn(i) ==
  LET st == streams[i]
  IN /\ st.pc = "pulling"
     /\ streams' = [streams EXCEPT ![i] = [@ EXCEPT !.pc = "done", !.hstate = "returned"]]
     /\ UNCHANGED <<buildVars, calls, registryVars>>

\* HandlerThrow with the error caught: the client's sequence just ends.
HandlerThrowSwallowed(i, e) ==
  LET st == streams[i]
  IN /\ st.pc = "pulling"
     /\ \/ e \in Errors
        \/ /\ e = TypeError
           /\ ChecksSignal(TheClient[st.name].method.execute)
           /\ st.signal = "undefined"
     /\ streams' = [streams EXCEPT ![i] =
          [@ EXCEPT !.pc = "done", !.hstate = "threw", !.hthrew = e]]
     /\ UNCHANGED <<buildVars, calls, registryVars>>

\* The handler throws: an error of its own, or the TypeError of reading
\* signal.aborted when no signal was given. The loop rethrows it.
HandlerThrow(i, e) ==
  LET st == streams[i]
  IN /\ st.pc = "pulling"
     /\ \/ e \in Errors
        \/ /\ e = TypeError
           /\ ChecksSignal(TheClient[st.name].method.execute)
           /\ st.signal = "undefined"
     /\ streams' = [streams EXCEPT ![i] =
          [@ EXCEPT !.pc = "failed", !.hstate = "threw", !.hthrew = e, !.error = e]]
     /\ UNCHANGED <<buildVars, calls, registryVars>>

\* WrapperCheck reading signal.aborted, which throws when no signal was given.
WrapperCheckNoOptional(i) ==
  LET st == streams[i]
  IN /\ st.pc = "delivered"
     /\ streams' = [streams EXCEPT ![i] =
          IF st.signal = "undefined"
            THEN [@ EXCEPT !.pc = "failed", !.hstate = "closed", !.pending = <<>>,
                           !.error = TypeError]
          ELSE IF OptionalAborted(st.signal)
            THEN [@ EXCEPT !.pc = "done", !.hstate = "closed", !.pending = <<>>,
                           !.cancelSeen = TRUE]
            ELSE [@ EXCEPT !.pc = "suspendedYield", !.pending = <<>>,
                           !.received = Append(@, st.pending[1])]]
     /\ UNCHANGED <<buildVars, calls, registryVars>>

\* WrapperCheck leaving the loop without closing the handler's generator.
WrapperCheckNoClose(i) ==
  LET st == streams[i]
  IN /\ st.pc = "delivered"
     /\ streams' = [streams EXCEPT ![i] =
          IF OptionalAborted(st.signal)
            THEN [@ EXCEPT !.pc = "done", !.pending = <<>>, !.cancelSeen = TRUE]
            ELSE [@ EXCEPT !.pc = "suspendedYield", !.pending = <<>>,
                           !.received = Append(@, st.pending[1])]]
     /\ UNCHANGED <<buildVars, calls, registryVars>>

\* WrapperCheck testing a signal kept in one place for all invocations.
WrapperCheckAnySignal(i) ==
  LET st == streams[i]
  IN /\ st.pc = "delivered"
     /\ streams' = [streams EXCEPT ![i] =
          IF \E j \in DOMAIN streams : OptionalAborted(streams[j].signal)
            THEN [@ EXCEPT !.pc = "done", !.hstate = "closed", !.pending = <<>>,
                           !.cancelSeen = TRUE]
            ELSE [@ EXCEPT !.pc = "suspendedYield", !.pending = <<>>,
                           !.received = Append(@, st.pending[1])]]
     /\ UNCHANGED <<buildVars, calls, registryVars>>

\* WrapperCheck with its test negated.
WrapperCheckInverted(i) ==
  LET st == streams[i]
  IN /\ st.pc = "delivered"
     /\ streams' = [streams EXCEPT ![i] =
          IF ~OptionalAborted(st.signal)
            THEN [@ EXCEPT !.pc = "done", !.hstate = "closed", !.pending = <<>>,
                           !.cancelSeen = TRUE]
            ELSE [@ EXCEPT !.pc = "suspendedYield", !.pending = <<>>,
                           !.received = Append(@, st.pending[1])]]
     /\ UNCHANGED <<buildVars, calls, registryVars>>

\* WrapperCheck with the test made after the yield.
WrapperCheckYieldThenBreak(i) ==
  LET st == streams[i]
  IN /\ st.pc = "delivered"
     /\ streams' = [streams EXCEPT ![i] =
          IF OptionalAborted(st.signal)
            THEN [@ EXCEPT !.pc = "done", !.hstate = "closed", !.pending = <<>>,
                           !.received = Append(@, st.pending[1]), !.cancelSeen = TRUE]
            ELSE [@ EXCEPT !.pc = "suspendedYield", !.pending = <<>>,
                           !.received = Append(@, st.pending[1])]]
     /\ UNCHANGED <<buildVars, calls, registryVars>>

\* The loop body, with the element the handler delivered:
\*   if (signal?.aborted) break;   (the loop's exit closes the handler's generator)
\*   yield value;
WrapperCheck(i) ==
  LET st == streams[i]
  IN /\ st.pc = "delivered"
     /\ streams' = [streams EXCEPT ![i] =
          IF OptionalAborted(st.signal)
            THEN [@ EXCEPT !.pc = "done", !.hstate = "closed", !.pending = <<>>,
                           !.cancelSeen = TRUE]
            ELSE [@ EXCEPT !.pc = "suspendedYield", !.pending = <<>>,
                           !.received = Append(@, st.pending[1])]]
     /\ UNCHANGED <<buildVars, calls, registryVars>>

\* Abort that ends the sequence at once when the wrapper waits for the handler.
AbortPreemptive(i) ==
  LET st == streams[i]
  IN /\ st.pc \notin {"none", "done", "failed"}
     /\ st.signal = "active"
     /\ streams' = [streams EXCEPT ![i] =
          IF st.pc = "pulling"
            THEN [@ EXCEPT !.signal = "aborted", !.recvAtAbort = Len(st.received),
                           !.pcAtAbort = st.pc, !.pc = "done", !.hstate = "closed",
                           !.cancelSeen = TRUE]
            ELSE [@ EXCEPT !.signal = "aborted", !.recvAtAbort = Len(st.received),
                           !.pcAtAbort = st.pc]]
     /\ UNCHANGED <<buildVars, calls, registryVars>>

\* The owner of the signal aborts it, at any time while the sequence is open.
\* Nothing in the wrapper listens: only the signal's state changes.
Abort(i) ==
  LET st == streams[i]
  IN /\ st.pc \notin {"none", "done", "failed"}
     /\ st.signal = "active"
     /\ streams' = [streams EXCEPT ![i] =
          [@ EXCEPT !.signal = "aborted", !.recvAtAbort = Len(st.received),
                    !.pcAtAbort = st.pc]]
     /\ UNCHANGED <<buildVars, calls, registryVars>>

\* The consumer leaves its loop between two elements: the client's sequence is
\* closed, which closes the handler's generator when the loop has started.
ConsumerReturn(i) ==
  LET st == streams[i]
  IN /\ st.pc \in {"suspendedStart", "suspendedYield"}
     /\ streams' = [streams EXCEPT ![i] =
          [@ EXCEPT !.pc = "done", !.abandoned = TRUE,
                    !.hstate = IF st.pc = "suspendedYield" THEN "closed" ELSE @]]
     /\ UNCHANGED <<buildVars, calls, registryVars>>


\* What calling a query/mutation handler leads to at once: it returns a value,
\* it throws, or it returns a promise that is still pending.
HandlerOutcomes ==
  [kind : {"returned"}, value : Results] \cup [kind : {"threw"}, value : Errors]
    \cup [kind : {"promise"}, value : {""}]

\* QueryCall with params checked against inputSchema first.
QueryCallValidating(c, name, p, out) ==
  LET f == TheClient[name]
      args == [handler |-> f.method.execute, params |-> p, app |-> f.app, signal |-> Undefined]
  IN /\ client # {}
     /\ name \in DOMAIN TheClient
     /\ f.conv = "async"
     /\ calls[c].pc = "none"
     /\ out \in HandlerOutcomes
     /\ calls' = [calls EXCEPT ![c] =
          IF ~Accepts(f.method.inputSchema, p)
            THEN [@ EXCEPT !.pc = "rejected", !.name = name, !.params = p,
                           !.value = "ZodError"]
          ELSE IF f.method.execute = Undefined
            THEN [@ EXCEPT !.pc = "rejected", !.name = name, !.params = p,
                           !.value = TypeError]
          ELSE IF out.kind = "threw"
            THEN [@ EXCEPT !.pc = "rejected", !.name = name, !.params = p,
                           !.hcalls = Append(@, args), !.hstate = "threw",
                           !.hvalue = out.value, !.value = out.value]
          ELSE IF out.kind = "returned"
            THEN [@ EXCEPT !.pc = "pending", !.name = name, !.params = p,
                           !.hcalls = Append(@, args), !.hstate = "fulfilled",
                           !.hvalue = out.value]
            ELSE [@ EXCEPT !.pc = "pending", !.name = name, !.params = p,
                           !.hcalls = Append(@, args), !.hstate = "pending"]]
     /\ UNCHANGED <<buildVars, streams, registryVars>>

\* client[name](params): the async function runs up to its await:
\*   return await method.execute(params, app, undefined)
\* A TypeError (execute is undefined) or the handler's own throw rejects the
\* caller's promise; otherwise the function waits for the handler's result.
QueryCall(c, name, p, out) ==
  LET f == TheClient[name]
      args == [handler |-> f.method.execute, params |-> p, app |-> f.app, signal |-> Undefined]
  IN /\ client # {}
     /\ name \in DOMAIN TheClient
     /\ f.conv = "async"
     /\ calls[c].pc = "none"
     /\ out \in HandlerOutcomes
     /\ calls' = [calls EXCEPT ![c] =
          IF f.method.execute = Undefined
            THEN [@ EXCEPT !.pc = "rejected", !.name = name, !.params = p,
                           !.value = TypeError]
          ELSE IF out.kind = "threw"
            THEN [@ EXCEPT !.pc = "rejected", !.name = name, !.params = p,
                           !.hcalls = Append(@, args), !.hstate = "threw",
                           !.hvalue = out.value, !.value = out.value]
          ELSE IF out.kind = "returned"
            THEN [@ EXCEPT !.pc = "pending", !.name = name, !.params = p,
                           !.hcalls = Append(@, args), !.hstate = "fulfilled",
                           !.hvalue = out.value]
            ELSE [@ EXCEPT !.pc = "pending", !.name = name, !.params = p,
                           !.hcalls = Append(@, args), !.hstate = "pending"]]
     /\ UNCHANGED <<buildVars, streams, registryVars>>

\* The promise an asynchronous handler returned settles.
HandlerSettle(c, state, v) ==
  /\ calls[c].hstate = "pending"
  /\ \/ state = "fulfilled" /\ v \in Results
     \/ state = "rejected" /\ v \in Errors
  /\ calls' = [calls EXCEPT ![c] = [@ EXCEPT !.hstate = state, !.hvalue = v]]
  /\ UNCHANGED <<buildVars, streams, registryVars>>

\* QueryResume with a rejection turned into a result of undefined.
QueryResumeSwallow(c) ==
  /\ calls[c].pc = "pending"
  /\ calls[c].hstate \in {"fulfilled", "rejected"}
  /\ calls' = [calls EXCEPT ![c] =
       [@ EXCEPT !.pc = "fulfilled",
                 !.value = IF calls[c].hstate = "fulfilled" THEN calls[c].hvalue
                           ELSE "undefined"]]
  /\ UNCHANGED <<buildVars, streams, registryVars>>

\* The await resumes with the handler's settled result, and the async function
\* returns it (or rethrows it) to its caller.
QueryResume(c) ==
  /\ calls[c].pc = "pending"
  /\ calls[c].hstate \in {"fulfilled", "rejected"}
  /\ calls' = [calls EXCEPT ![c] =
       [@ EXCEPT !.pc = calls[c].hstate, !.value = calls[c].hvalue]]
  /\ UNCHANGED <<buildVars, streams, registryVars>>

(***************************************************************************)
(* The specifications of the builder and of the client                     *)
(***************************************************************************)
IdleRegistry ==
  /\ services = <<>>
  /\ lastCall = [op |-> "none"]
  /\ lastReg = <<>>
  /\ reRegistered = <<>>

IdleClient ==
  /\ streams = [i \in Invs |-> IdleStream]
  /\ calls = [c \in CallIds |-> IdleCall]

\* Every schema over the method names q and s, and every implementation over
\* q, s and x (a name no schema declares).
BuildSchemas ==
  [name : {"a"}, path : {"/p"}, methods : ObjectsOver({"q", "s"}, SchemaMethod)]
BuildImplementations ==
  ObjectsOver({"q", "s", "x"}, {Fn("hq"), Fn("hsCheck")})

InitBuild ==
  /\ schemas \in BuildSchemas
  /\ implementation \in BuildImplementations
  /\ endpoint = {}
  /\ client = {}
  /\ IdleClient
  /\ IdleRegistry

NextBuild ==
  \/ Build
  \/ \E app \in Apps : CreateClient(app)

SpecBuild == InitBuild /\ [][NextBuild]_vars

\* The schema the client is exercised with: a query, a mutation and a stream.
ClientSchema ==
  [ name |-> "a", path |-> "/p",
    methods |-> [m \in {"q", "m", "s"} |->
                   IF m = "q" THEN [type |-> "query", input |-> "zA", result |-> "zB"]
                   ELSE IF m = "m" THEN [type |-> "mutation", input |-> "zB", result |-> "zA"]
                   ELSE [type |-> "stream", input |-> "zA", result |-> "zB"]] ]

\* Its implementations: the mutation's handler, with or without a handler for
\* the query, for the stream (one that reads the signal or one that does not)
\* and for x, which the schema does not declare.
ClientImplementations ==
  { impl \in ObjectsOver({"q", "m", "s", "x"}, {Fn(h) : h \in HandlerIds}) :
      /\ "m" \in DOMAIN impl /\ impl["m"] = Fn("hm")
      /\ "q" \in DOMAIN impl => impl["q"] = Fn("hq")
      /\ "s" \in DOMAIN impl => impl["s"] \in {Fn("hsCheck"), Fn("hsIgnore")}
      /\ "x" \in DOMAIN impl => impl["x"] = Fn("hx") }

Init ==
  /\ schemas = ClientSchema
  /\ implementation \in ClientImplementations
  /\ endpoint = {}
  /\ client = {}
  /\ IdleClient
  /\ IdleRegistry

Next ==
  \/ Build
  \/ \E app \in Apps : CreateClient(app)
  \/ \E i \in Invs, name \in DOMAIN ClientSchema.methods, p \in Params, sig \in SignalStates :
       StreamCall(i, name, p, sig)
  \/ \E i \in Invs : ConsumerNext(i)
  \/ \E i \in Invs : HandlerYield(i)
  \/ \E i \in Invs : HandlerReturn(i)
  \/ \E i \in Invs, e \in Errors \cup {TypeError} : HandlerThrow(i, e)
  \/ \E i \in Invs : WrapperCheck(i)
  \/ \E i \in Invs : Abort(i)
  \/ \E i \in Invs : ConsumerReturn(i)
  \/ \E c \in CallIds, name \in DOMAIN ClientSchema.methods, p \in Params,
        out \in HandlerOutcomes : QueryCall(c, name, p, out)
  \/ \E c \in CallIds, state \in {"fulfilled", "rejected"}, v \in Results \cup Errors :
       HandlerSettle(c, state, v)
  \/ \E c \in CallIds : QueryResume(c)

Spec == Init /\ [][Next]_vars

(***************************************************************************)
(* Two stream invocations in flight through one client                     *)
(***************************************************************************)
\* Two invocations of the client's stream function, each called with an
\* AbortSignal of its own.
TwoInvs == {"i1", "i2"}

InitTwo ==
  /\ schemas = ClientSchema
  /\ implementation \in {impl \in ClientImplementations :
                           DOMAIN impl = DOMAIN ClientSchema.methods}
  /\ endpoint = {}
  /\ client = {}
  /\ streams = [i \in TwoInvs |-> IdleStream]
  /\ calls = [c \in CallIds |-> IdleCall]
  /\ IdleRegistry

NextTwo ==
  \/ Build
  \/ \E app \in Apps : CreateClient(app)
  \/ \E i \in TwoInvs, sig \in {"active", "aborted"} : StreamCall(i, "s", "p1", sig)
  \/ \E i \in TwoInvs : ConsumerNext(i)
  \/ \E i \in TwoInvs : HandlerYield(i)
  \/ \E i \in TwoInvs : HandlerReturn(i)
  \/ \E i \in TwoInvs : HandlerThrow(i, "e1")
  \/ \E i \in TwoInvs : WrapperCheck(i)
  \/ \E i \in TwoInvs : Abort(i)
  \/ \E i \in TwoInvs : ConsumerReturn(i)

SpecTwo == InitTwo /\ [][NextTwo]_vars


(***************************************************************************)
(* Claims about the builder (checked under SpecBuild)                      *)
(***************************************************************************)
CompleteImplementation == DOMAIN schemas.methods \subseteq DOMAIN implementation

\* C1: for every schema (one with no method too) and every implementation with a
\* handler for each of its methods, createRPCEndpoint can run and returns an
\* endpoint whose methods are exactly the schema's, each with the schema's type,
\* input as inputSchema, result as resultSchema, and the implementation's very
\* handler as execute.
C1_EndpointMatchesSchema ==
  CompleteImplementation =>
    /\ endpoint = {} => ENABLED Build
    /\ \A ep \in endpoint :
         /\ DOMAIN ep.methods = DOMAIN schemas.methods
         /\ \A m \in DOMAIN schemas.methods :
              /\ ep.methods[m].type = schemas.methods[m].type
              /\ ep.methods[m].inputSchema = schemas.methods[m].input
              /\ ep.methods[m].resultSchema = schemas.methods[m].result
              /\ ep.methods[m].execute = implementation[m]

\* An endpoint was built from a schema with a query q and a stream s, whose
\* validators differ, and an implementation with two distinct handlers.
C1_Witness ==
  /\ endpoint # {}
  /\ CompleteImplementation
  /\ DOMAIN schemas.methods = {"q", "s"}
  /\ schemas.methods["q"].type = "query"
  /\ schemas.methods["s"].type = "stream"
  /\ schemas.methods["q"].input # schemas.methods["q"].result
  /\ implementation["q"] # implementation["s"]

(***************************************************************************)
(* Claims about the client (checked under Spec)                            *)
(***************************************************************************)
\* C3: in a stream invocation whose signal is never aborted, the consumer gets
\* the handler's elements in the handler's order, none dropped, doubled or
\* reordered (at any time: what it got, then the one the wrapper holds, is what
\* the handler yielded), and when the handler's sequence ends the client's
\* sequence ends normally, the consumer having got every element.
C3_StreamDeliversAll ==
  \A i \in Invs :
    LET st == streams[i]
    IN st.signal = "active" =>
         /\ st.received \o st.pending = st.produced
         /\ st.hstate = "returned" =>
              /\ st.pc = "done"
              /\ st.error = NoError
              /\ st.received = st.produced
         /\ (st.pc = "done" /\ ~st.abandoned) => st.hstate = "returned"

\* The handler yielded MaxElems elements, numbered in ascending order, and
\* returned; the signal was never aborted and the consumer got them all.
C3_Witness ==
  \E i \in Invs :
    /\ streams[i].signal = "active"
    /\ streams[i].pc = "done"
    /\ streams[i].hstate = "returned"
    /\ streams[i].received = [k \in 1..MaxElems |-> [number |-> k - 1]]

\* The error a failed stream invocation carries is never the wrapper's own: it
\* is the handler's, or the TypeError of calling an absent execute.
OnlyForeignErrors(st) ==
  st.pc = "failed" =>
    \/ st.hthrew # NoError /\ st.error = st.hthrew
    \/ st.hcalls = <<>> /\ st.error = TypeError

\* C4: once the signal is aborted, the consumer having got k elements, it never
\* gets another one; the element the wrapper holds when it sees the abort is
\* dropped and the client's sequence ends normally, also when the handler
\* ignores the signal; the wrapper raises no error for the cancellation.
C4_NoElementAfterAbort ==
  \A i \in Invs :
    LET st == streams[i]
    IN /\ st.signal = "aborted" =>
            /\ Len(st.received) = st.recvAtAbort
            /\ OnlyForeignErrors(st)
       /\ st.cancelSeen =>
            /\ st.signal = "aborted"
            /\ st.pc = "done"
            /\ st.error = NoError
            /\ st.pending = <<>>
            /\ Len(st.produced) = Len(st.received) + 1

\* The signal was aborted after the second element; a handler that ignores the
\* signal yielded a third, which the wrapper dropped, ending the sequence.
C4_Witness ==
  \E i \in Invs :
    /\ streams[i].signal = "aborted"
    /\ streams[i].recvAtAbort = 2
    /\ streams[i].cancelSeen
    /\ streams[i].pc = "done"
    /\ Len(streams[i].produced) = 3
    /\ Len(streams[i].received) = 2
    /\ streams[i].hcalls[1].handler = Fn("hsIgnore")

\* C5: a query or mutation call whose method has a handler invokes that handler
\* exactly once, with the caller's params as they are (valid for the method's
\* inputSchema or not) and with the client's app, and the caller's promise is
\* fulfilled only with the handler's result, returned at once or through a promise.
C5_QueryForwards ==
  \A c \in CallIds :
    LET ca == calls[c]
    IN (ca.pc # "none" /\ TheClient[ca.name].method.execute # Undefined) =>
         /\ Len(ca.hcalls) = 1
         /\ ca.hcalls[1].handler = implementation[ca.name]
         /\ ca.hcalls[1].params = ca.params
         /\ ca.hcalls[1].app = TheClient[ca.name].app
         /\ ca.pc = "fulfilled" => (ca.hstate = "fulfilled" /\ ca.value = ca.hvalue)
         /\ ca.hstate = "fulfilled" => ca.pc \in {"pending", "fulfilled"}

\* The query q, whose inputSchema rejects p2, was called with p2; its handler
\* got p2 and the caller got the handler's result.
C5_Witness ==
  \E c \in CallIds :
    /\ calls[c].pc = "fulfilled"
    /\ calls[c].name = "q"
    /\ calls[c].params = "p2"
    /\ ~Accepts(TheClient["q"].method.inputSchema, "p2")
    /\ calls[c].hcalls[1].params = "p2"
    /\ calls[c].value = "r2"

\* C6: when a query or mutation handler throws or its promise is rejected with
\* an error e, the caller's promise is never fulfilled: it is rejected with e
\* itself (at once when the handler throws).
C6_QueryErrorPropagates ==
  \A c \in CallIds :
    LET ca == calls[c]
    IN /\ ca.hstate = "threw" => (ca.pc = "rejected" /\ ca.value = ca.hvalue)
       /\ ca.hstate = "rejected" =>
            /\ ca.pc \in {"pending", "rejected"}
            /\ ca.pc = "rejected" => ca.value = ca.hvalue
       /\ (ca.pc = "rejected" /\ ca.hcalls # <<>>) =>
            (ca.hstate \in {"threw", "rejected"} /\ ca.value \in Errors)

\* A handler's promise was rejected with e2 and the caller's promise was
\* rejected with e2.
C6_Witness ==
  \E c \in CallIds :
    /\ calls[c].hstate = "rejected"
    /\ calls[c].pc = "rejected"
    /\ calls[c].value = "e2"

\* C7: when a stream handler throws e after yielding k elements and the signal
\* is never aborted, the consumer has got exactly those k elements, in order,
\* and gets e itself as the failure of its next request; the client's sequence
\* does not end normally.
C7_StreamErrorPropagates ==
  \A i \in Invs :
    LET st == streams[i]
    IN (st.signal # "aborted" /\ st.hstate = "threw") =>
         /\ st.pc = "failed"
         /\ st.error = st.hthrew
         /\ st.error # NoError
         /\ st.received = st.produced
         /\ st.pending = <<>>

\* A handler threw e1 after two elements, which the consumer had got.
C7_Witness ==
  \E i \in Invs :
    /\ streams[i].signal = "active"
    /\ streams[i].hstate = "threw"
    /\ streams[i].error = "e1"
    /\ streams[i].received = <<[number |-> 0], [number |-> 1]>>

C11_NoSignalIsNotCancelled ==
  \A i \in Invs :
    LET st == streams[i]
    IN (st.pc # "none" /\ st.signal = "undefined") =>
         /\ ~st.cancelSeen
         /\ st.recvAtAbort = -1
         /\ OnlyForeignErrors(st)
         /\ st.received \o st.pending = st.produced
         /\ st.hstate # "closed" \/ st.abandoned
         /\ st.hstate = "returned" =>
              (st.pc = "done" /\ st.error = NoError /\ st.received = st.produced)
         /\ (st.pc = "done" /\ ~st.abandoned) => st.hstate = "returned"

\* Without a signal, a handler that never reads the signal yielded MaxElems
\* elements and returned, and the consumer got them all.
C11_Witness ==
  \E i \in Invs :
    /\ streams[i].signal = "undefined"
    /\ streams[i].pc = "done"
    /\ streams[i].hstate = "returned"
    /\ streams[i].hcalls[1].signal = Undefined
    /\ streams[i].hcalls[1].handler = Fn("hsIgnore")
    /\ Len(streams[i].received) = MaxElems

\* C15: cancellation is cooperative. Aborting the signal changes nothing but the
\* signal: the invocation stays where it is and the handler goes on. While the
\* wrapper waits for the handler, only the handler moves the invocation on, by
\* yielding an element, returning or throwing; and the wrapper takes its break
\* only on an element the handler has just yielded.
C15_CooperativeCancellation ==
  [][\A i \in Invs :
       LET a == streams[i]
           b == streams'[i]
       IN /\ (a.pc # "none" /\ a.signal # b.signal) =>
               /\ b.pc = a.pc
               /\ b.hstate = a.hstate
               /\ b.produced = a.produced
               /\ b.received = a.received
               /\ b.error = a.error
               /\ b.cancelSeen = a.cancelSeen
          /\ (a.pc = "pulling" /\ b.pc # "pulling") =>
               \/ b.pc = "delivered" /\ Len(b.produced) = Len(a.produced) + 1
               \/ b.pc = "done" /\ b.hstate = "returned"
               \/ b.pc = "failed" /\ b.hstate = "threw"
          /\ (b.cancelSeen /\ ~a.cancelSeen) =>
               /\ a.pc = "delivered"
               /\ a.signal = "aborted"
               /\ Len(a.pending) = 1]_vars

\* The signal was aborted while the wrapper waited for a handler that never
\* reads it; the handler went on and yielded its next element.
C15_Witness ==
  \E i \in Invs :
    /\ streams[i].pcAtAbort = "pulling"
    /\ streams[i].signal = "aborted"
    /\ streams[i].pc = "delivered"
    /\ streams[i].hstate = "running"
    /\ streams[i].hcalls[1].handler = Fn("hsIgnore")
    /\ Len(streams[i].produced) = Len(streams[i].received) + 1
    /\ Len(streams[i].received) = streams[i].recvAtAbort
    /\ Len(streams[i].received) >= 1

\* C16: the client has one function per key of endpoint.methods and no other;
\* the function of a "stream" method is an async generator function, which
\* calls the handler with the caller's params, the app and the caller's signal;
\* the function of any other method is an async function, which calls the
\* handler with the caller's params, the app and undefined for the signal.
C16_OneFunctionPerMethod ==
  \A c \in client : \A ep \in endpoint :
    /\ DOMAIN c = DOMAIN ep.methods
    /\ \A n \in DOMAIN c :
         /\ c[n].method = ep.methods[n]
         /\ c[n].app \in Apps
         /\ c[n].app = c["m"].app
         /\ c[n].conv = IF ep.methods[n].type = "stream" THEN "asyncGenerator" ELSE "async"
    /\ \A i \in Invs :
         streams[i].pc # "none" =>
           /\ ep.methods[streams[i].name].type = "stream"
           /\ Len(streams[i].hcalls) <= 1
           /\ \A k \in 1..Len(streams[i].hcalls) :
                streams[i].hcalls[k] =
                  [ handler |-> ep.methods[streams[i].name].execute,
                    params |-> streams[i].params,
                    app |-> c[streams[i].name].app,
                    signal |-> IF streams[i].signal = "undefined"
                                 THEN Undefined
                                 ELSE [tag |-> "signal", of |-> i] ]
    /\ \A k \in CallIds :
         calls[k].pc # "none" =>
           /\ ep.methods[calls[k].name].type # "stream"
           /\ Len(calls[k].hcalls) <= 1
           /\ \A j \in 1..Len(calls[k].hcalls) :
                calls[k].hcalls[j] =
                  [ handler |-> ep.methods[calls[k].name].execute,
                    params |-> calls[k].params,
                    app |-> c[calls[k].name].app,
                    signal |-> Undefined ]

\* The stream function was called with a signal and the mutation function was
\* called too; both handlers have been called.
C16_Witness ==
  \E i \in Invs, k \in CallIds :
    /\ client # {}
    /\ DOMAIN TheClient = {"q", "m", "s"}
    /\ streams[i].name = "s"
    /\ Len(streams[i].hcalls) = 1
    /\ streams[i].hcalls[1].signal # Undefined
    /\ streams[i].hcalls[1].params = "p2"
    /\ calls[k].name = "m"
    /\ Len(calls[k].hcalls) = 1
    /\ calls[k].hcalls[1].signal = Undefined
    /\ calls[k].hcalls[1].app = "app2"

\* C17: when a stream invocation whose handler was called stops early, by the
\* wrapper's break or by the consumer closing the sequence, the handler's
\* generator is closed and the client's sequence is done without an error; from
\* then on the handler is asked for nothing and yields nothing. The break drops
\* exactly the one element the wrapper holds; a consumer's close drops none.
C17_EarlyStopClosesHandler ==
  /\ [](\A i \in Invs :
          LET st == streams[i]
          IN /\ (st.cancelSeen \/ (st.abandoned /\ st.hcalls # <<>>)) =>
                  /\ st.hstate = "closed"
                  /\ st.pc = "done"
                  /\ st.error = NoError
                  /\ st.pending = <<>>
             /\ st.cancelSeen => Len(st.produced) = Len(st.received) + 1
             /\ st.abandoned => st.produced = st.received
             /\ Len(st.produced) - Len(st.received) \in {0, 1}
             /\ st.hstate = "closed" => (st.cancelSeen \/ st.abandoned))
  /\ [][\A i \in Invs :
          streams[i].hstate = "closed" =>
            /\ streams'[i].hstate = "closed"
            /\ streams'[i].pc = "done"
            /\ streams'[i].produced = streams[i].produced
            /\ streams'[i].hcalls = streams[i].hcalls]_vars

\* The wrapper broke on the third element of a handler that never reads the
\* signal, which was aborted while the consumer held the second: the handler's
\* generator is closed and the third element reached nobody.
C17_Witness ==
  \E i \in Invs :
    /\ streams[i].cancelSeen
    /\ streams[i].hstate = "closed"
    /\ streams[i].pcAtAbort = "suspendedYield"
    /\ streams[i].hcalls[1].handler = Fn("hsIgnore")
    /\ Len(streams[i].produced) = 3
    /\ Len(streams[i].received) = 2
    /\ streams[i].pending = <<>>

(***************************************************************************)
(* Claims about two invocations in flight (checked under SpecTwo)          *)
(***************************************************************************)
\* C18: two stream invocations in flight through one client are independent
\* under every interleaving. Each calls the handler once, for itself, with its
\* own signal, and gets that call's elements from the first on, in order. An
\* invocation whose own signal is not aborted is never broken off by the
\* wrapper, whatever the other's signal is, and gets every element its handler
\* yields. No step of one invocation, its signal's abort included, changes
\* anything of the other.
C18_InvocationsIndependent ==
  /\ [](\A i \in TwoInvs :
          LET st == streams[i]
          IN st.pc # "none" =>
               /\ st.cancelSeen => st.signal = "aborted"
               /\ st.signal = "active" =>
                    /\ st.received \o st.pending = st.produced
                    /\ st.hstate = "returned" =>
                         (st.pc = "done" /\ st.received = st.produced)
                    /\ (st.pc = "done" /\ ~st.abandoned) => st.hstate = "returned"
               /\ \A k \in 1..Len(st.received) : st.received[k] = [number |-> k - 1]
               /\ st.pc \in {"pulling", "delivered", "suspendedYield"} =>
                    st.hstate = "running"
               /\ (st.pc # "suspendedStart" /\ st.hstate # "none") =>
                    /\ Len(st.hcalls) = 1
                    /\ st.hcalls[1].signal = [tag |-> "signal", of |-> i])
  /\ [][\A i, j \in TwoInvs :
          (i # j /\ streams'[i] # streams[i]) => streams'[j] = streams[j]]_vars

\* The first invocation was broken off on its aborted signal after two
\* elements, while the second, its signal untouched, got all MaxElems elements
\* of its own handler call to the end.
C18_Witness ==
  /\ streams["i1"].cancelSeen
  /\ streams["i1"].signal = "aborted"
  /\ Len(streams["i1"].received) = 2
  /\ streams["i2"].signal = "active"
  /\ streams["i2"].pc = "done"
  /\ streams["i2"].hstate = "returned"
  /\ Len(streams["i2"].received) = MaxElems
  /\ streams["i1"].hcalls[1].signal # streams["i2"].hcalls[1].signal

(***************************************************************************)
(* More claims about the builder (checked under SpecBuild)                 *)
(***************************************************************************)
ExtraHandlers == DOMAIN implementation \ DOMAIN schemas.methods

\* C12: createRPCEndpoint can run on an implementation with handlers for names
\* the schema does not declare; none of those names is a method of the
\* endpoint, and createLocalRPCClient can run on the endpoint and makes no
\* function for any of them.
C12_ExtraHandlersIgnored ==
  ExtraHandlers # {} =>
    /\ endpoint = {} => ENABLED Build
    /\ (endpoint # {} /\ client = {}) => \A app \in Apps : ENABLED CreateClient(app)
    /\ \A ep \in endpoint : ExtraHandlers \cap DOMAIN ep.methods = {}
    /\ \A c \in client : ExtraHandlers \cap DOMAIN c = {}

\* A client was made from an endpoint built with a handler for x, which the
\* schema, declaring q, does not name.
C12_Witness ==
  /\ client # {}
  /\ "x" \in ExtraHandlers
  /\ "q" \in DOMAIN schemas.methods
  /\ "q" \in DOMAIN implementation
  /\ DOMAIN TheClient = DOMAIN schemas.methods

(***************************************************************************)
(* KeyedRegistry (of @tokenring-ai/utility): a keyed store that keeps its  *)
(* entries in insertion order. A registry is a sequence of <<key, item>>.  *)
(***************************************************************************)
KeysOf(reg) == {reg[i][1] : i \in 1..Len(reg)}

IndexOfKey(reg, key) == CHOOSE i \in 1..Len(reg) : reg[i][1] = key

register(reg, key, item) ==
  IF key \in KeysOf(reg)
    THEN [reg EXCEPT ![IndexOfKey(reg, key)] = <<key, item>>]
    ELSE Append(reg, <<key, item>>)

getItemByName(reg, key) ==
  IF key \in KeysOf(reg) THEN reg[IndexOfKey(reg, key)][2] ELSE Undefined

getAllItemValues(reg) == [i \in 1..Len(reg) |-> reg[i][2]]

(***************************************************************************)
(* RpcService: one registry per instance                                   *)
(***************************************************************************)
\* The schemas of the endpoints callers register: two named "a" that differ in
\* their path, and one named "b" whose path reads like the name "a" (a path is
\* never the key).
RegSchemas ==
  { [name |-> np[1], path |-> np[2],
     methods |-> [m \in {"q"} |-> [type |-> "query", input |-> "zA", result |-> "zB"]]] :
      np \in {<<"a", "/p">>, <<"a", "/q">>, <<"b", "a">>} }

\* Names looked up: the registered ones and one never registered.
LookupNames == {"a", "b", "c"}
MaxServices == 2

\* The endpoints callers register, each built by createRPCEndpoint.
RegEndpoints == {createRPCEndpoint(s, [m \in {"q"} |-> Fn("hq")]) : s \in RegSchemas}

Services == 1..Len(services)

\* install(app, config): app.addServices(new RpcService())
install ==
  /\ Len(services) < MaxServices
  /\ services' = Append(services, <<>>)
  /\ lastReg' = Append(lastReg, <<>>)
  /\ reRegistered' = Append(reRegistered, {})
  /\ lastCall' = [op |-> "install", svc |-> Len(services) + 1, outcome |-> "returned",
                  reported |-> FALSE, value |-> Undefined]
  /\ UNCHANGED <<buildVars, clientVars>>

\* registerEndpoint keyed by endpoint.path.
registerEndpointByPath(s, ep) ==
  /\ services' = [services EXCEPT ![s] = register(@, ep.path, ep)]
  /\ lastReg' = [lastReg EXCEPT ![s] = (ep.name :> ep) @@ @]
  /\ reRegistered' = [reRegistered EXCEPT ![s] = @ \cup ({ep.name} \cap DOMAIN lastReg[s])]
  /\ lastCall' = [op |-> "registerEndpoint", svc |-> s, arg |-> ep,
                  duplicate |-> ep.name \in DOMAIN lastReg[s],
                  outcome |-> "returned", reported |-> FALSE, value |-> Undefined]
  /\ UNCHANGED <<buildVars, clientVars>>

\* registerEndpoint that keeps the endpoint a name already has.
registerEndpointKeepFirst(s, ep) ==
  /\ services' = [services EXCEPT ![s] =
                    IF ep.name \in KeysOf(@) THEN @ ELSE register(@, ep.name, ep)]
  /\ lastReg' = [lastReg EXCEPT ![s] = (ep.name :> ep) @@ @]
  /\ reRegistered' = [reRegistered EXCEPT ![s] = @ \cup ({ep.name} \cap DOMAIN lastReg[s])]
  /\ lastCall' = [op |-> "registerEndpoint", svc |-> s, arg |-> ep,
                  duplicate |-> ep.name \in DOMAIN lastReg[s],
                  outcome |-> "returned", reported |-> FALSE, value |-> Undefined]
  /\ UNCHANGED <<buildVars, clientVars>>

\* registerEndpoint that starts the store afresh before registering.
registerEndpointReset(s, ep) ==
  /\ services' = [services EXCEPT ![s] = register(<<>>, ep.name, ep)]
  /\ lastReg' = [lastReg EXCEPT ![s] = (ep.name :> ep) @@ @]
  /\ reRegistered' = [reRegistered EXCEPT ![s] = @ \cup ({ep.name} \cap DOMAIN lastReg[s])]
  /\ lastCall' = [op |-> "registerEndpoint", svc |-> s, arg |-> ep,
                  duplicate |-> ep.name \in DOMAIN lastReg[s],
                  outcome |-> "returned", reported |-> FALSE, value |-> Undefined]
  /\ UNCHANGED <<buildVars, clientVars>>

\* registerEndpoint keyed by the service's own name instead of the endpoint's.
registerEndpointByServiceName(s, ep) ==
  /\ services' = [services EXCEPT ![s] = register(@, "RpcService", ep)]
  /\ lastReg' = [lastReg EXCEPT ![s] = (ep.name :> ep) @@ @]
  /\ reRegistered' = [reRegistered EXCEPT ![s] = @ \cup ({ep.name} \cap DOMAIN lastReg[s])]
  /\ lastCall' = [op |-> "registerEndpoint", svc |-> s, arg |-> ep,
                  duplicate |-> ep.name \in DOMAIN lastReg[s],
                  outcome |-> "returned", reported |-> FALSE, value |-> Undefined]
  /\ UNCHANGED <<buildVars, clientVars>>

\* registerEndpoint on a store that all instances share.
registerEndpointShared(s, ep) ==
  /\ services' = [t \in DOMAIN services |-> register(services[t], ep.name, ep)]
  /\ lastReg' = [lastReg EXCEPT ![s] = (ep.name :> ep) @@ @]
  /\ reRegistered' = [reRegistered EXCEPT ![s] = @ \cup ({ep.name} \cap DOMAIN lastReg[s])]
  /\ lastCall' = [op |-> "registerEndpoint", svc |-> s, arg |-> ep,
                  duplicate |-> ep.name \in DOMAIN lastReg[s],
                  outcome |-> "returned", reported |-> FALSE, value |-> Undefined]
  /\ UNCHANGED <<buildVars, clientVars>>

\* registerEndpoint(endpoint): this.endpoints.register(endpoint.name, endpoint).
\* It returns nothing, and neither throws nor reports anything itself.
registerEndpoint(s, ep) ==
  /\ services' = [services EXCEPT ![s] = register(@, ep.name, ep)]
  /\ lastReg' = [lastReg EXCEPT ![s] = (ep.name :> ep) @@ @]
  /\ reRegistered' = [reRegistered EXCEPT ![s] = @ \cup ({ep.name} \cap DOMAIN lastReg[s])]
  /\ lastCall' = [op |-> "registerEndpoint", svc |-> s, arg |-> ep,
                  duplicate |-> ep.name \in DOMAIN lastReg[s],
                  outcome |-> "returned", reported |-> FALSE, value |-> Undefined]
  /\ UNCHANGED <<buildVars, clientVars>>

\* getEndpoint = this.endpoints.getItemByName
getEndpoint(s, name) ==
  /\ lastCall' = [op |-> "getEndpoint", svc |-> s, arg |-> name, outcome |-> "returned",
                  reported |-> FALSE, value |-> getItemByName(services[s], name)]
  /\ UNCHANGED <<services, lastReg, reRegistered>>
  /\ UNCHANGED <<buildVars, clientVars>>

\* getAllEndpoints = this.endpoints.getAllItemValues
getAllEndpoints(s) ==
  /\ lastCall' = [op |-> "getAllEndpoints", svc |-> s, outcome |-> "returned",
                  reported |-> FALSE, value |-> getAllItemValues(services[s])]
  /\ UNCHANGED <<services, lastReg, reRegistered>>
  /\ UNCHANGED <<buildVars, clientVars>>

InitRegistry ==
  /\ IdleRegistry
  /\ schemas = [name |-> "a", path |-> "a", methods |-> <<>>]
  /\ implementation = <<>>
  /\ endpoint = {}
  /\ client = {}
  /\ IdleClient

NextRegistry ==
  \/ install
  \/ \E s \in Services, ep \in RegEndpoints : registerEndpoint(s, ep)
  \/ \E s \in Services, name \in LookupNames : getEndpoint(s, name)
  \/ \E s \in Services : getAllEndpoints(s)

SpecRegistry == InitRegistry /\ [][NextRegistry]_vars

C10_OnePerNameLastWins ==
  /\ lastCall.op = "getAllEndpoints" =>
       LET all == lastCall.value
           reg == lastReg[lastCall.svc]
       IN /\ Len(all) = Cardinality(DOMAIN reg)
          /\ \A n \in DOMAIN reg :
               /\ Cardinality({i \in 1..Len(all) : all[i].name = n}) = 1
               /\ \E i \in 1..Len(all) : all[i] = reg[n]
  /\ (lastCall.op = "getEndpoint" /\ lastCall.arg \in reRegistered[lastCall.svc]) =>
       lastCall.value = lastReg[lastCall.svc][lastCall.arg]

\* getAllEndpoints() returned two endpoints, "a" and "b", after "a" was registered
\* a second time with another path.
C10_Witness ==
  /\ lastCall.op = "getAllEndpoints"
  /\ Len(lastCall.value) = 2
  /\ "a" \in reRegistered[lastCall.svc]
  /\ {lastCall.value[i].name : i \in 1..2} = {"a", "b"}

\* C13: no operation of RpcService removes an endpoint: no step makes the set
\* of names an instance holds smaller or removes an instance, so every name
\* that registerEndpoint was called with is present to getEndpoint in every
\* later state.
C13_NeverShrinks ==
  /\ [](\A s \in Services : \A n \in DOMAIN lastReg[s] :
          getItemByName(services[s], n) # Undefined)
  /\ [](lastCall.op = "getEndpoint" /\ lastCall.arg \in DOMAIN lastReg[lastCall.svc]
          => lastCall.value # Undefined)
  /\ [][/\ Len(services') >= Len(services)
        /\ \A s \in Services :
             /\ KeysOf(services[s]) \subseteq KeysOf(services'[s])
             /\ \A n \in LookupNames :
                  getItemByName(services[s], n) # Undefined
                    => getItemByName(services'[s], n) # Undefined]_vars

\* getEndpoint("b") returned an endpoint on an instance where, "b" being
\* registered first, "a" was registered and registered again.
C13_Witness ==
  /\ lastCall.op = "getEndpoint"
  /\ lastCall.arg = "b"
  /\ lastCall.value # Undefined
  /\ "a" \in reRegistered[lastCall.svc]
  /\ services[lastCall.svc][1][1] = "b"

Contents(reg) == {reg[i] : i \in 1..Len(reg)}

\* C14: registrations under distinct names neither interfere nor depend on
\* their order: a registerEndpoint(B) step leaves what getEndpoint returns for
\* every name other than B.name as it was, and two instances that were last
\* given the same endpoint for each name hold the same contents, whatever the
\* order the registrations came in.
C14_DistinctNamesCommute ==
  /\ [](\A s, t \in Services :
          lastReg[s] = lastReg[t] => Contents(services[s]) = Contents(services[t]))
  /\ [][\A s \in Services :
          (lastCall'.op = "registerEndpoint" /\ lastCall'.svc = s) =>
            /\ \A n \in LookupNames \ {lastCall'.arg.name} :
                 getItemByName(services'[s], n) = getItemByName(services[s], n)
            /\ getItemByName(services'[s], lastCall'.arg.name) = lastCall'.arg]_vars

\* Two instances registered the same two endpoints, one "a" then "b", the other
\* "b" then "a", and hold the same contents.
C14_Witness ==
  \E s, t \in Services :
    /\ Len(services[s]) = 2
    /\ Len(services[t]) = 2
    /\ services[s][1][1] = "a"
    /\ services[s][2][1] = "b"
    /\ services[t][1][1] = "b"
    /\ services[t][2][1] = "a"
    /\ reRegistered[s] = {}
    /\ reRegistered[t] = {}
    /\ Contents(services[s]) = Contents(services[t])

\* C19: every RpcService instance has a registry of its own: a registerEndpoint
\* step on one instance leaves what getEndpoint and getAllEndpoints return on
\* every other instance as it was, and an install step adds an instance whose
\* registry is empty and leaves the earlier instances as they were.
C19_RegistryPerInstance ==
  [][/\ \A t \in Services :
          (lastCall'.op = "registerEndpoint" /\ lastCall'.svc # t) =>
            /\ getAllItemValues(services'[t]) = getAllItemValues(services[t])
            /\ \A n \in LookupNames :
                 getItemByName(services'[t], n) = getItemByName(services[t], n)
     /\ lastCall'.op = "install" =>
          /\ Len(services') = Len(services) + 1
          /\ getAllItemValues(services'[Len(services')]) = <<>>
          /\ \A n \in LookupNames :
               getItemByName(services'[Len(services')], n) = Undefined
          /\ \A t \in Services : services'[t] = services[t]]_vars

\* The second installed instance answered getAllEndpoints() with nothing while
\* the first holds two endpoints.
C19_Witness ==
  /\ Len(services) = 2
  /\ Len(services[1]) = 2
  /\ lastCall.op = "getAllEndpoints"
  /\ lastCall.svc = 2
  /\ lastCall.value = <<>>
  /\ lastReg[2] = <<>>

====
